---- MODULE Spec2Model ----
(***************************************************************************)
(* Model of src/src/Core/Registration/Feature.cpp (namespace three):       *)
(* ComputePairFeatures, ComputeSPFHFeature and ComputeFPFHFeature.         *)
(*                                                                         *)
(* Numbers.  Point coordinates are integers and normals are axis-aligned   *)
(* unit vectors, so every dot and cross product of the code is an exact    *)
(* integer.  The remaining reals of the code are kept exact:               *)
(*   - a "surd" <<n, d>> (d >= 1) stands for the real n / sqrt(d): the     *)
(*     angles n.d/|d|, the component v.n2 and the distance |d| are of      *)
(*     this form;                                                          *)
(*   - the angle returned by atan2 is a number q of quarter turns          *)
(*     (q * pi/2): with axis-aligned normals one argument of atan2 is      *)
(*     always zero;                                                        *)
(*   - a histogram cell is an integer count of 1/Scale units, Scale being  *)
(*     a common multiple of every possible neighbour count, so that        *)
(*     100.0 / (indices.size() - 1) is exact (floating-point rounding of   *)
(*     the sums is not modelled).                                          *)
(* The sign of a floating-point zero decides atan2(+-0, x < 0) = +-pi; it  *)
(* depends on the evaluation order of the products and is an input of the  *)
(* model (see Atan2).                                                      *)
(***************************************************************************)
EXTENDS Integers, Sequences, FiniteSets, TLC

\* ------------------------------------------------------------------ bounds

\* Largest number of points of the input cloud.
MaxN == 3
\* Pair-feature inputs: coordinates of p2 - p1 range over -PairGrid..PairGrid.
PairGrid == 2
\* Binning inputs: surds n/sqrt(d) with |n| <= BinNum, 1 <= d <= BinDen.
BinNum == 4
BinDen == 4

\* --------------------------------------------------------- program constants

\* Rows of the feature matrix: feature->Resize(33, ...).
Dim == 33
\* Bins of one sub-histogram: floor(11 * ...), h_index >= 11.
NumBins == 11
\* Histogram mass of one sub-histogram: 100.0 / (indices.size() - 1).
HistTotal == 100

\* ------------------------------------------------------------- vector maths

Abs(x) == IF x < 0 THEN -x ELSE x

Sign(x) == IF x < 0 THEN -1 ELSE IF x > 0 THEN 1 ELSE 0

\* Eigen: a.dot(b)
Dot(a, b) == a[1] * b[1] + a[2] * b[2] + a[3] * b[3]

\* Eigen: a.cross3(b) on the three coordinates
Cross(a, b) ==
    << a[2] * b[3] - a[3] * b[2],
       a[3] * b[1] - a[1] * b[3],
       a[1] * b[2] - a[2] * b[1] >>

\* p2 - p1
Sub(a, b) == << a[1] - b[1], a[2] - b[2], a[3] - b[3] >>

\* dp2p1 *= -1.0
Neg(a) == << -a[1], -a[2], -a[3] >>

\* The six axis-aligned unit normals.
AxisNormals ==
    { <<1, 0, 0>>, <<-1, 0, 0>>, <<0, 1, 0>>, <<0, -1, 0>>,
      <<0, 0, 1>>, <<0, 0, -1>> }

\* ------------------------------------------------------------------- surds

\* The real n / sqrt(d); a zero numerator is written <<0, 1>>.
Surd(n, d) == IF n = 0 THEN <<0, 1>> ELSE <<n, d>>

SurdZero == <<0, 1>>

\* c <= m * (s[1] / sqrt(s[2])) for integers c and m > 0, i.e.
\* c * sqrt(d) <= m * n, decided on signs and squares.
IntLeqScaled(c, m, s) ==
    LET n == s[1]
        d == s[2]
    IN  IF c <= 0 /\ n >= 0 THEN TRUE
        ELSE IF c > 0 /\ n < 0 THEN FALSE
        ELSE IF c > 0 THEN c * c * d <= m * m * n * n
        ELSE c * c * d >= m * m * n * n

\* --------------------------------------------------- ComputePairFeatures

\* Eigen::Vector4d::Zero(): f1 as quarter turns, f2, f3 and the distance as
\* surds.
Zero4 == << 0, SurdZero, SurdZero, SurdZero >>

\* Mutant: the canonicalization test reversed.
AcosAbsGreaterReversed(a1, a2, D) ==
    IF a1 * a1 > D \/ a2 * a2 > D THEN FALSE ELSE Abs(a1) > Abs(a2)

\* acos(fabs(angle1)) > acos(fabs(angle2)) for angle1 = a1/sqrt(D) and
\* angle2 = a2/sqrt(D): acos decreases on [0, 1]; outside [0, 1] acos is NaN
\* and the comparison is false.
AcosAbsGreater(a1, a2, D) ==
    IF a1 * a1 > D \/ a2 * a2 > D THEN FALSE ELSE Abs(a1) < Abs(a2)

\* atan2(y, x) in quarter turns, from the signs of y and x.  negzero tells
\* whether a zero y is the floating-point -0.0: atan2(-0.0, x < 0) = -pi and
\* atan2(+0.0, x < 0) = pi.  x is a sum of products one of which is
\* (+0)*(+0), hence never -0.0: atan2(+-0, +0) = +-0.
Atan2(sy, sx, negzero) ==
    CASE sy = 0 /\ sx > 0 -> 0
      [] sy = 0 /\ sx = 0 -> 0
      [] sy = 0 /\ sx < 0 -> IF negzero THEN -2 ELSE 2
      [] sy > 0 /\ sx = 0 -> 1
      [] sy < 0 /\ sx = 0 -> -1

\* Mutant: the zero-norm guard of the frame dropped.
FrameUndefinedNever(CC) == FALSE

\* if (v_norm == 0.0), v_norm being sqrt(CC).
FrameUndefined(CC) == CC = 0

\* What ComputePairFeatures computes: the returned 4-vector (result), and
\* the locals the claims speak about: the reference normal n1_copy after
\* the canonicalization (ref), the other normal n2_copy (other), the
\* connecting vector dp2p1 after it (dvec), whether the branch was taken
\* (swapped), n1.dp2p1 and n2.dp2p1 (a1, a2) and the squared distance (dd).
PairLocals(p1, n1, p2, n2, negzero) ==
    LET d0 == Sub(p2, p1)
        D  == Dot(d0, d0)
        a1 == Dot(n1, d0)
        a2 == Dot(n2, d0)
        sw == D # 0 /\ AcosAbsGreater(a1, a2, D)
        u  == IF sw THEN n2 ELSE n1
        t  == IF sw THEN n1 ELSE n2
        dv == IF sw THEN Neg(d0) ELSE d0
        f3 == IF sw THEN Surd(-a2, D) ELSE Surd(a1, D)
        C  == Cross(dv, u)
        CC == Dot(C, C)
        wC == Cross(u, C)
        f2 == Surd(Dot(C, t), CC)
        f1 == Atan2(Sign(Dot(wC, t)), Sign(Dot(u, t)), negzero)
    IN  [ result  |-> IF D = 0 THEN Zero4
                      ELSE IF FrameUndefined(CC) THEN Zero4
                      ELSE << f1, f2, f3, Surd(D, D) >>,
          ref     |-> u,
          other   |-> t,
          dvec    |-> dv,
          swapped |-> sw,
          a1      |-> a1,
          a2      |-> a2,
          dd      |-> D,
          vv      |-> CC ]

ComputePairFeatures(p1, n1, p2, n2, negzero) ==
    PairLocals(p1, n1, p2, n2, negzero).result

\* ----------------------------------------------------------------- binning

\* The quarter turns q in -10 .. 10 at which the double quotient
\* 11 * (f1 + M_PI) / (2.0 * M_PI) is an exact integer in real arithmetic but
\* falls just below it in IEEE double arithmetic: the product 11 * (f1 + M_PI)
\* is rounded down, so f1 = pi gives 10.999999999999998 and f1 = 3 pi gives
\* 21.999999999999996.  At every other q in that range the double quotient
\* has the floor of the exact one.  (Evaluated in x87 extended precision the
\* quotient at f1 = pi is exactly 11; ClampBin maps both to bin 10.)
QuotientRoundedBelow == {2, 6}

\* (int)floor(11 * (f1 + M_PI) / (2.0 * M_PI)) for f1 = q quarter turns,
\* evaluated in doubles.
FloorBin1(q) ==
    LET exact == (NumBins * (q + 2)) \div 4
    IN  IF q \in QuotientRoundedBelow THEN exact - 1 ELSE exact

\* floor(11 * (f + 1.0) * 0.5) for the surd f: the integer h with
\* 2h - 11 <= 11 f < 2h + 2 - 11.
FloorBin23(f) ==
    LET m == Abs(f[1])
    IN  CHOOSE h \in (-6 * m - 1) .. (6 * m + 6) :
            /\ IntLeqScaled(2 * h - NumBins, NumBins, f)
            /\ ~ IntLeqScaled(2 * h + 2 - NumBins, NumBins, f)

\* Mutant: the upper clamp tests h_index > 11.
ClampBinOffByOne(h) == IF h < 0 THEN 0 ELSE IF h > NumBins THEN NumBins - 1 ELSE h

\* if (h_index < 0) h_index = 0; if (h_index >= 11) h_index = 10;
ClampBin(h) == IF h < 0 THEN 0 ELSE IF h >= NumBins THEN NumBins - 1 ELSE h

\* The three rows one pair feature is added to: h_index, h_index + 11 and
\* h_index + 22.
HistRows(feat) ==
    << ClampBin(FloorBin1(feat[1])),
       ClampBin(FloorBin23(feat[2])) + NumBins,
       ClampBin(FloorBin23(feat[3])) + 2 * NumBins >>

\* ------------------------------------------------- cloud and search index

\* The oriented points (position, unit normal) the input cloud is made of:
\* coincident points, a normal parallel to a connecting line, opposite
\* normals and normals of unequal deviation from a connecting line occur.
OrientedPoints ==
    << [ p |-> <<0, 0, 0>>, n |-> <<0, 0, 1>> ],
       [ p |-> <<0, 0, 0>>, n |-> <<1, 0, 0>> ],
       [ p |-> <<1, 0, 0>>, n |-> <<-1, 0, 0>> ],
       [ p |-> <<1, 1, 0>>, n |-> <<1, 0, 0>> ],
       [ p |-> <<1, 1, 0>>, n |-> <<0, 0, 1>> ] >>

\* The clouds of n points, up to the order of the points (the code treats
\* every index alike): the choices of n oriented points, listed in order.
Clouds(n) ==
    { c \in [0 .. n - 1 -> 1 .. Len(OrientedPoints)] :
        \A i \in 0 .. n - 1 : i + 1 < n => c[i] <= c[i + 1] }

\* KDTreeSearchParam: KNN(k), Radius(r) and Hybrid(r, k).  A radius is
\* given by the integer r2 with r2 < r * r < r2 + 1.
SearchParams ==
    [ kind : {"knn"}, k : {0, 1, 2, MaxN}, r2 : {0} ]
        \cup [ kind : {"radius"}, k : {0}, r2 : {1} ]
        \cup [ kind : {"hybrid"}, k : {2}, r2 : {1} ]

\* PointCloud::HasNormals(): there are points and as many normals.
HasNormals(pts, nrm) == DOMAIN pts # {} /\ DOMAIN nrm = DOMAIN pts

\* Squared distance of points i and j.
Dist2(pts, i, j) == Dot(Sub(pts[j], pts[i]), Sub(pts[j], pts[i]))

\* Whether the search lists point a before point b for the query point i:
\* nearest first, the query point itself first, points at equal distance by
\* index.
ListedBefore(pts, i, a, b) ==
    \/ Dist2(pts, i, a) < Dist2(pts, i, b)
    \/ /\ Dist2(pts, i, a) = Dist2(pts, i, b)
       /\ a # b
       /\ (a = i \/ (b # i /\ a < b))

\* KDTreeFlann::Search(point i, param): the possible index vectors.  The
\* neighbours come nearest first, the query point itself first; of several
\* points at the distance of the last one, any may be the ones returned.
SearchResults(pts, i, param) ==
    LET all    == DOMAIN pts
        within == IF param.kind = "knn" THEN all
                  ELSE { j \in all : Dist2(pts, i, j) <= param.r2 }
        m      == IF param.kind = "radius" THEN Cardinality(within)
                  ELSE IF param.k < Cardinality(within) THEN param.k
                  ELSE Cardinality(within)
    IN  { s \in [1 .. m -> within] :
            /\ m >= 1 => s[1] = i
            /\ \A a \in 1 .. m : a < m => ListedBefore(pts, i, s[a], s[a + 1])
            /\ m >= 1 => \A j \in within :
                  (\A a \in 1 .. m : s[a] # j) => Dist2(pts, i, j) >= Dist2(pts, i, s[m]) }

\* ----------------------------------------------------------- feature matrix

RECURSIVE Factorial(_)
Factorial(n) == IF n <= 1 THEN 1 ELSE n * Factorial(n - 1)

\* Cells count units of 1/Scale; Scale is a multiple of every number of
\* true neighbours.
Scale == Factorial(MaxN)

\* Feature::Resize(33, n): a zero-filled matrix, column i being m[i].
Resize(n) == [ i \in 0 .. n - 1 |-> [ r \in 0 .. Dim - 1 |-> 0 ] ]

\* A matrix not yet allocated.
NoMatrix == Resize(0)

\* Mutant: the increment divides by the number of indices, self included.
HistIncrWithSelf(size) == (HistTotal * Scale) \div size

\* hist_incr = 100.0 / (double)(indices.size() - 1)
HistIncr(size) == (HistTotal * Scale) \div (size - 1)

\* data_(h, col) += incr for the three rows h of hr.
AddToColumn(m, col, hr, incr) ==
    [ m EXCEPT ![col] =
        [ r \in 0 .. Dim - 1 |->
            IF r = hr[1] \/ r = hr[2] \/ r = hr[3] THEN m[col][r] + incr ELSE m[col][r] ] ]

\* ------------------------------------------------------------------- state

VARIABLES
    points,     \* input.points_, indexed from 0
    normals,    \* input.normals_, indexed from 0; empty when there are none
    param,      \* search_param
    negz,       \* arguments <<p1, n1, p2, n2>> whose zero w.dot(n2_copy) is -0.0
    pc,         \* position of ComputeFPFHFeature
    diag,       \* whether PrintDebug was called
    feature,    \* the matrix ComputeFPFHFeature returns
    spfh,       \* the matrix of ComputeSPFHFeature
    taskpc,     \* position of the loop body of each point i
    indices,    \* the vector indices of each loop body
    kk,         \* the loop variable k of each loop body
    searches,   \* number of calls of kdtree.Search
    writes,     \* cells written: <<i, row, column>> for the body of point i
    calls,      \* calls of ComputePairFeatures made by the loop bodies
    ppc,        \* position of the pure-function harness: "call", "bin", "done"
    pin,        \* arguments of the ComputePairFeatures call under check
    pl,         \* locals of that call
    pf,         \* pair feature under check
    rows        \* rows computed from pf

cloudvars == << points, normals, param, negz >>

runvars == << pc, diag, feature, spfh, taskpc, indices, kk, searches, writes, calls >>

purevars == << ppc, pin, pl, pf, rows >>

vars == << cloudvars, runvars, purevars >>

NoCall == [ p1 |-> <<0, 0, 0>>, n1 |-> <<1, 0, 0>>, p2 |-> <<0, 0, 0>>,
            n2 |-> <<1, 0, 0>>, negzero |-> FALSE ]

NoLocals == PairLocals(NoCall.p1, NoCall.n1, NoCall.p2, NoCall.n2, FALSE)

N == Cardinality(DOMAIN points)

\* Whether the sign of a zero decides the result for these arguments: the
\* normals are opposite and the pair is not degenerate.
ZeroSignMatters(p1, n1, p2, n2) ==
    /\ n2 = Neg(n1)
    /\ ComputePairFeatures(p1, n1, p2, n2, FALSE) # Zero4

\* ----------------------------------------------------- ComputeFPFHFeature

PureIdle ==
    /\ ppc = "idle"
    /\ pin = NoCall
    /\ pl = NoLocals
    /\ pf = Zero4
    /\ rows = << >>

Init ==
    /\ \E n \in 1 .. MaxN : \E c \in Clouds(n) :
          /\ points = [ i \in 0 .. n - 1 |-> OrientedPoints[c[i]].p ]
          /\ normals \in { [ i \in 0 .. n - 1 |-> OrientedPoints[c[i]].n ], << >> }
    /\ param \in SearchParams
    /\ negz \in SUBSET { a \in { << points[i], normals[i], points[j], normals[j] >> :
                                    i \in DOMAIN normals, j \in DOMAIN normals } :
                           ZeroSignMatters(a[1], a[2], a[3], a[4]) }
    /\ pc = "start"
    /\ diag = FALSE
    /\ feature = NoMatrix
    /\ spfh = NoMatrix
    /\ taskpc = [ i \in DOMAIN points |-> "idle" ]
    /\ indices = [ i \in DOMAIN points |-> << >> ]
    /\ kk = [ i \in DOMAIN points |-> 0 ]
    /\ searches = 0
    /\ writes = {}
    /\ calls = {}
    /\ PureIdle

\* Mutant: the check of the normals never fails.
NormalsMissingNever(pts, nrm) == FALSE

\* input.HasNormals() == false
NormalsMissing(pts, nrm) == HasNormals(pts, nrm) = FALSE

\* ComputeFPFHFeature up to the check of the normals: the result matrix is
\* allocated; without normals the message is printed and it is returned.
Entry ==
    /\ pc = "start"
    /\ feature' = Resize(N)
    /\ IF NormalsMissing(points, normals)
          THEN pc' = "returned" /\ diag' = TRUE
          ELSE pc' = "kdtree" /\ diag' = diag
    /\ UNCHANGED << cloudvars, spfh, taskpc, indices, kk, searches, writes, calls, purevars >>

\* KDTreeFlann kdtree(input) and the call of ComputeSPFHFeature up to the
\* parallel loop: its matrix is allocated and one loop body per point starts.
EnterSPFH ==
    /\ pc = "kdtree"
    /\ spfh' = Resize(N)
    /\ taskpc' = [ i \in DOMAIN points |-> "search" ]
    /\ pc' = "parallel"
    /\ UNCHANGED << cloudvars, diag, feature, indices, kk, searches, writes, calls, purevars >>

\* if (indices.size() > 1) for (size_t k = 1; ...): the first k of the
\* loop, or size when the loop has no iteration.
FirstNeighbour(size) == IF size > 1 THEN 1 ELSE size

\* The loop body of point i up to the neighbour loop: the search.
TaskSearch(i) ==
    /\ pc = "parallel"
    /\ taskpc[i] = "search"
    /\ \E s \in SearchResults(points, i, param) :
          /\ indices' = [ indices EXCEPT ![i] = s ]
          /\ kk' = [ kk EXCEPT ![i] = FirstNeighbour(Len(s)) ]
          /\ taskpc' = [ taskpc EXCEPT ![i] =
                           IF FirstNeighbour(Len(s)) < Len(s) THEN "loop" ELSE "done" ]
    /\ searches' = searches + 1
    /\ UNCHANGED << cloudvars, pc, diag, feature, spfh, writes, calls, purevars >>

\* Mutant: the query point and the neighbour exchanged.
PairArgsExchanged(i, j) ==
    [ p1 |-> points[j], n1 |-> normals[j], p2 |-> points[i], n2 |-> normals[i],
      negzero |-> << points[j], normals[j], points[i], normals[i] >> \in negz ]

\* ComputePairFeatures(point, normal, input.points_[indices[k]],
\* input.normals_[indices[k]]) for j = indices[k].
PairArgs(i, j) ==
    [ p1 |-> points[i], n1 |-> normals[i], p2 |-> points[j], n2 |-> normals[j],
      negzero |-> << points[i], normals[i], points[j], normals[j] >> \in negz ]

\* Mutant: every loop body writes column 0.
WriteColumnZero(i) == 0

\* Mutant: the loop body of point i writes the next column.
WriteColumnNext(i) == (i + 1) % N

\* The column of feature->data_(h_index, i).
WriteColumn(i) == i

\* One iteration of the neighbour loop of point i.
TaskLoop(i) ==
    /\ pc = "parallel"
    /\ taskpc[i] = "loop"
    /\ LET size == Len(indices[i])
           j    == indices[i][kk[i] + 1]
           a    == PairArgs(i, j)
           loc  == PairLocals(a.p1, a.n1, a.p2, a.n2, a.negzero)
           hr   == HistRows(loc.result)
           col  == WriteColumn(i)
       IN  /\ spfh' = AddToColumn(spfh, col, hr, HistIncr(size))
           /\ writes' = writes \cup { <<i, hr[1], col>>, <<i, hr[2], col>>, <<i, hr[3], col>> }
           /\ calls' = calls \cup
                 { [ i |-> i, j |-> j, p1 |-> a.p1, n1 |-> a.n1, p2 |-> a.p2, n2 |-> a.n2,
                     ref |-> loc.ref, swapped |-> loc.swapped, result |-> loc.result ] }
           /\ kk' = [ kk EXCEPT ![i] = kk[i] + 1 ]
           /\ taskpc' = [ taskpc EXCEPT ![i] = IF kk[i] + 1 < size THEN "loop" ELSE "done" ]
    /\ UNCHANGED << cloudvars, pc, diag, feature, indices, searches, purevars >>

\* Mutant: the loop does not wait for its bodies.
LoopFinishedNoWait(tp) == TRUE

\* The end of the parallel loop: every body has run to its end.
LoopFinished(tp) == \A i \in DOMAIN tp : tp[i] = "done"

\* ComputeSPFHFeature returns its matrix.
LeaveSPFH ==
    /\ pc = "parallel"
    /\ LoopFinished(taskpc)
    /\ pc' = "joined"
    /\ UNCHANGED << cloudvars, diag, feature, spfh, taskpc, indices, kk, searches, writes,
                    calls, purevars >>

\* return feature, at the end of ComputeFPFHFeature.
Return ==
    /\ pc = "joined"
    /\ pc' = "returned"
    /\ UNCHANGED << cloudvars, diag, feature, spfh, taskpc, indices, kk, searches, writes,
                    calls, purevars >>

Next ==
    \/ Entry
    \/ EnterSPFH
    \/ \E i \in DOMAIN points : TaskSearch(i)
    \/ \E i \in DOMAIN points : TaskLoop(i)
    \/ LeaveSPFH
    \/ Return

Spec == Init /\ [][Next]_vars

\* ------------------------------------------ pure functions: specifications

RunIdle ==
    /\ points = << >>
    /\ normals = << >>
    /\ param = [ kind |-> "knn", k |-> 0, r2 |-> 0 ]
    /\ negz = {}
    /\ pc = "idle"
    /\ diag = FALSE
    /\ feature = NoMatrix
    /\ spfh = NoMatrix
    /\ taskpc = << >>
    /\ indices = << >>
    /\ kk = << >>
    /\ searches = 0
    /\ writes = {}
    /\ calls = {}

PairCoords == (-PairGrid) .. PairGrid

PairPoints == { <<x, y, z>> : x \in PairCoords, y \in PairCoords, z \in PairCoords }

InitPair ==
    /\ RunIdle
    /\ ppc = "call"
    /\ \E p1 \in { <<0, 0, 0>>, <<1, 0, -1>> }, p2 \in PairPoints,
          n1 \in AxisNormals, n2 \in AxisNormals, nz \in BOOLEAN :
          /\ nz => ZeroSignMatters(p1, n1, p2, n2)
          /\ pin = [ p1 |-> p1, n1 |-> n1, p2 |-> p2, n2 |-> n2, negzero |-> nz ]
    /\ pl = NoLocals
    /\ pf = Zero4
    /\ rows = << >>

\* A call of ComputePairFeatures.
PairCall ==
    /\ ppc = "call"
    /\ pl' = PairLocals(pin.p1, pin.n1, pin.p2, pin.n2, pin.negzero)
    /\ pf' = ComputePairFeatures(pin.p1, pin.n1, pin.p2, pin.n2, pin.negzero)
    /\ ppc' = "bin"
    /\ UNCHANGED << cloudvars, runvars, pin, rows >>

\* The binning of one pair feature (the loop body of ComputeSPFHFeature).
BinCall ==
    /\ ppc = "bin"
    /\ rows' = HistRows(pf)
    /\ ppc' = "done"
    /\ UNCHANGED << cloudvars, runvars, pin, pl, pf >>

NextPair == PairCall \/ BinCall

SpecPair == InitPair /\ [][NextPair]_vars

\* Values at, inside and beyond the domain boundaries.
BinSurds == { Surd(n, d) : n \in (-BinNum) .. BinNum, d \in 1 .. BinDen }

BinAngles == (-BinNum) .. BinNum

InitBin ==
    /\ RunIdle
    /\ ppc = "bin"
    /\ pin = NoCall
    /\ pl = NoLocals
    /\ \E q \in BinAngles, f2 \in BinSurds, f3 \in BinSurds :
          pf = << q, f2, f3, SurdZero >>
    /\ rows = << >>

NextBin == BinCall

SpecBin == InitBin /\ [][NextBin]_vars

\* ------------------------------------------------- sequential reference

\* Column i of the SPFH matrix after the iterations k' < k of the neighbour
\* loop of point i over the index vector idx, run alone from a zero column.
RECURSIVE SPFHColumn(_, _, _)
SPFHColumn(i, idx, k) ==
    IF k <= FirstNeighbour(Len(idx)) \/ Len(idx) <= 1
        THEN [ r \in 0 .. Dim - 1 |-> 0 ]
        ELSE LET prev == SPFHColumn(i, idx, k - 1)
                 a    == PairArgs(i, idx[k])
                 hr   == HistRows(ComputePairFeatures(a.p1, a.n1, a.p2, a.n2, a.negzero))
             IN  [ r \in 0 .. Dim - 1 |->
                     IF r = hr[1] \/ r = hr[2] \/ r = hr[3]
                         THEN prev[r] + HistIncr(Len(idx)) ELSE prev[r] ]

\* Sum of the cells lo .. hi of a column.
RECURSIVE RowSum(_, _, _)
RowSum(col, lo, hi) == IF lo > hi THEN 0 ELSE col[lo] + RowSum(col, lo + 1, hi)

\* Sum of f over the finite set S.
RECURSIVE SetSum(_, _)
SetSum(S, f) ==
    IF S = {} THEN 0
    ELSE LET x == CHOOSE y \in S : TRUE IN f[x] + SetSum(S \ {x}, f)

RECURSIVE SetProduct(_, _)
SetProduct(S, f) ==
    IF S = {} THEN 1
    ELSE LET x == CHOOSE y \in S : TRUE IN f[x] * SetProduct(S \ {x}, f)

\* ------------------------------------------------ the FPFH of the design

\* D = SquarePart(D)^2 * SquareFree(D), so that sqrt(D) is
\* SquarePart(D) * sqrt(SquareFree(D)).
SquarePart(D) == CHOOSE m \in 1 .. D : D % (m * m) = 0 /\ \A k \in (m + 1) .. D : D % (k * k) # 0

SquareFree(D) == D \div (SquarePart(D) * SquarePart(D))

\* The neighbours of point i at a strictly positive distance.
UsableNeighbours(i) ==
    { j \in DOMAIN points : (\E a \in 1 .. Len(indices[i]) : indices[i][a] = j)
                              /\ Dist2(points, i, j) > 0 }

\* Whether the value val (in cell units) is cell r of
\*   FPFH(i) = SPFH(i) + (1/k) * sum over the usable neighbours j of
\*             SPFH(j) / distance(i, j),
\* FPFH(i) = SPFH(i) when k = 0.  With 1/sqrt(D) = sqrt(s) / (m * s) for
\* D = m^2 * s, and the square roots of distinct square-free numbers being
\* linearly independent over the rationals, the equation holds iff it holds
\* for the coefficient of each sqrt(s).
FPFHCellIs(i, r, val) ==
    LET J    == UsableNeighbours(i)
        k    == Cardinality(J)
        den  == [ j \in J |-> SquarePart(Dist2(points, i, j)) * SquareFree(Dist2(points, i, j)) ]
        Q    == SetProduct(J, den)
        coef(s) == SetSum({ j \in J : SquareFree(Dist2(points, i, j)) = s },
                          [ j \in J |-> spfh[j][r] * (Q \div den[j]) ])
    IN  IF k = 0 THEN val = spfh[i][r]
        ELSE \A s \in { SquareFree(Dist2(points, i, j)) : j \in J } \cup {1} :
                coef(s) = IF s = 1 THEN k * Q * (val - spfh[i][r]) ELSE 0

\* ------------------------------------------------------------------ claims

Returned == pc = "returned"

SPFHCompleted == pc \in {"joined", "returned"}

ZeroColumn(col) == DOMAIN col = 0 .. Dim - 1 /\ \A r \in 0 .. Dim - 1 : col[r] = 0

\* C1: for every cloud with normals and every point i, column i of the
\* matrix ComputeFPFHFeature returns is SPFH(i) + (1/k) * the sum over the
\* neighbours j of i at positive distance of SPFH(j)/distance(i,j), and
\* SPFH(i) when k = 0.  (The code returns the zero matrix: violated.)
C1_ReturnsFPFH ==
    (Returned /\ HasNormals(points, normals)) =>
        \A i \in DOMAIN points : \A r \in 0 .. Dim - 1 : FPFHCellIs(i, r, feature[i][r])

\* C2: without normals ComputeFPFHFeature makes no neighbour query and no
\* SPFH computation, and returns the 33 x N all-zero matrix.
C2_NoNormalsZeroMatrix ==
    (normals = << >>) =>
        /\ searches = 0 /\ writes = {} /\ calls = {}
        /\ spfh = NoMatrix
        /\ \A i \in DOMAIN points : taskpc[i] = "idle"
        /\ pc \in {"start", "returned"}
        /\ Returned =>
              /\ DOMAIN feature = 0 .. N - 1
              /\ \A i \in 0 .. N - 1 : ZeroColumn(feature[i])

C2_Witness ==
    /\ Returned /\ normals = << >> /\ N = MaxN /\ diag
    /\ DOMAIN feature = 0 .. MaxN - 1

\* C3: once the loop body of a point whose query returned at least two
\* indices has ended, each of the three sub-histograms of its column sums to
\* 100 and the column to 300, degenerate pair features included.
C3_SubHistogramsSumTo100 ==
    \A i \in DOMAIN points :
        (taskpc[i] = "done" /\ Len(indices[i]) >= 2) =>
            /\ RowSum(spfh[i], 0, NumBins - 1) = HistTotal * Scale
            /\ RowSum(spfh[i], NumBins, 2 * NumBins - 1) = HistTotal * Scale
            /\ RowSum(spfh[i], 2 * NumBins, Dim - 1) = HistTotal * Scale
            /\ RowSum(spfh[i], 0, Dim - 1) = 3 * HistTotal * Scale

C3_Witness ==
    /\ SPFHCompleted
    /\ \E i \in DOMAIN points :
          /\ Len(indices[i]) = MaxN
          /\ \E c \in calls : c.i = i /\ c.result = Zero4
          /\ \E c \in calls : c.i = i /\ c.result # Zero4
          /\ RowSum(spfh[i], 0, Dim - 1) = 3 * HistTotal * Scale

\* C4: once the loop body of a point whose query returned no true neighbour
\* (the point alone, or nothing) has ended, its column is all zero.
C4_NoNeighbourZeroColumn ==
    \A i \in DOMAIN points :
        (taskpc[i] = "done" /\ Len(indices[i]) <= 1) => ZeroColumn(spfh[i])

C4_Witness ==
    /\ SPFHCompleted
    /\ \E i, j \in DOMAIN points :
          /\ Len(indices[i]) = 1 /\ ZeroColumn(spfh[i])
          /\ Len(indices[j]) >= 2 /\ ~ ZeroColumn(spfh[j])

\* C5, as claimed: every pair feature of the SPFH builder is computed with
\* point i as the reference, the role swap never being applied, so that the
\* frame is never built on the neighbour's normal.  (Violated.)
C5_SwapNeverApplied ==
    \A c \in calls : c.p1 = points[c.i] /\ c.ref = normals[c.i] /\ ~ c.swapped

\* C5, amended: the SPFH builder always passes point i and its normal as
\* (p1, n1) and the neighbour as (p2, n2); ComputePairFeatures swaps the
\* roles exactly when the normal of i deviates more from the connecting line
\* than the neighbour's, and the frame is then built on the neighbour's
\* normal.
C5_QueryPointPassedFirst ==
    \A c \in calls :
        LET d == Sub(points[c.j], points[c.i])
        IN  /\ c.i # c.j
            /\ c.p1 = points[c.i] /\ c.n1 = normals[c.i]
            /\ c.p2 = points[c.j] /\ c.n2 = normals[c.j]
            /\ c.swapped <=> Abs(Dot(normals[c.i], d)) < Abs(Dot(normals[c.j], d))
            /\ c.ref = IF c.swapped THEN normals[c.j] ELSE normals[c.i]

C5_Witness ==
    /\ \E c \in calls : c.swapped /\ c.ref # normals[c.i] /\ c.result # Zero4
    /\ \E c \in calls : ~ c.swapped /\ c.ref # normals[c.j] /\ c.result # Zero4

\* What holds of the cells written in every state: the loop body of point i
\* wrote cells of column i only, no cell was written by two bodies, and
\* column i is what the iterations body i made so far produce when run alone.
ColumnsOwned ==
    /\ \A w \in writes : w[3] = w[1]
    /\ \A w1, w2 \in writes : (w1[2] = w2[2] /\ w1[3] = w2[3]) => w1[1] = w2[1]
    /\ \A i \in DOMAIN spfh : spfh[i] = SPFHColumn(i, indices[i], kk[i])

\* What holds of every step of the parallel loop: the points, the normals
\* and the search parameter are only read, and a column changes only in an
\* iteration of its own loop body.
ColumnsOwnedStep ==
    /\ points' = points /\ normals' = normals /\ param' = param
    /\ pc = "parallel" =>
          \A j \in DOMAIN spfh : spfh'[j] # spfh[j] => kk'[j] = kk[j] + 1

\* C6: under every interleaving the loop body of point i writes cells of
\* column i only and only reads the points, the normals and the search
\* parameter; no cell is written by the bodies of two points, and column i
\* holds at every moment what the iterations of body i made so far produce
\* when run alone: the final matrix does not depend on the schedule.
C6_ColumnExclusiveWrites == []ColumnsOwned /\ [][ColumnsOwnedStep]_vars

C6_Witness ==
    \E i, j \in DOMAIN points :
        /\ i # j
        /\ taskpc[i] = "loop" /\ kk[i] = 2
        /\ taskpc[j] = "loop" /\ kk[j] = 2
        /\ \E w \in writes : w[1] = i
        /\ \E w \in writes : w[1] = j

\* C7: when ComputeSPFHFeature has returned and when ComputeFPFHFeature
\* returns for a cloud with normals, the loop body of every point has ended
\* and has handled every neighbour: every SPFH column is completely written.
C7_SPFHCompleteBeforeReturn ==
    (SPFHCompleted /\ HasNormals(points, normals)) =>
        \A i \in DOMAIN points :
            /\ taskpc[i] = "done"
            /\ kk[i] = Len(indices[i])
            /\ spfh[i] = SPFHColumn(i, indices[i], Len(indices[i]))

C7_Witness ==
    /\ Returned /\ N = MaxN
    /\ \A i \in DOMAIN points : Len(indices[i]) = MaxN /\ ~ ZeroColumn(spfh[i])

\* Whether h is floor(11 * (f + 1) / 2) clamped into 0..10, for the surd f.
BinOfSurdOk(f, h) ==
    /\ h \in 0 .. NumBins - 1
    /\ IntLeqScaled(NumBins, NumBins, f) => h = NumBins - 1
    /\ ~ IntLeqScaled(1 - NumBins, NumBins, f) => h = 0
    /\ (IntLeqScaled(1 - NumBins, NumBins, f) /\ ~ IntLeqScaled(NumBins, NumBins, f)) =>
          /\ IntLeqScaled(2 * h - NumBins, NumBins, f)
          /\ ~ IntLeqScaled(2 * h + 2 - NumBins, NumBins, f)

\* Whether h is floor(11 * (q + 2) / 4) clamped into 0..10, for q quarter turns.
BinOfAngleOk(q, h) ==
    /\ h \in 0 .. NumBins - 1
    /\ q >= 2 => h = NumBins - 1
    /\ q <= -2 => h = 0
    /\ (-2 < q /\ q < 2) => (4 * h <= NumBins * (q + 2) /\ NumBins * (q + 2) < 4 * h + 4)

\* C8: the bin index of every value, at and beyond the domain boundaries
\* included, is floor(11 * (value - min) / range) clamped into 0..10: a value
\* at or above the upper bound has bin 10, one at or below the lower bound
\* bin 0, and the rows written are in 0..10, 11..21 and 22..32.
C8_BinIndexInRange ==
    (ppc = "done") =>
        /\ BinOfAngleOk(pf[1], rows[1])
        /\ BinOfSurdOk(pf[2], rows[2] - NumBins)
        /\ BinOfSurdOk(pf[3], rows[3] - 2 * NumBins)

C8_Witness ==
    /\ ppc = "done"
    /\ pf[1] = 2 /\ rows[1] = NumBins - 1
    /\ pf[2] = <<1, 1>> /\ rows[2] = 2 * NumBins - 1
    /\ pf[3] = <<-1, 1>> /\ rows[3] = 2 * NumBins

\* C9: ComputePairFeatures returns the all-zero 4-vector when p1 = p2 and
\* when the connecting vector is parallel to the chosen reference normal;
\* otherwise the fourth component is the distance |p2 - p1| > 0.
C9_DegenerateZero ==
    (ppc = "bin") =>
        LET d    == Sub(pin.p2, pin.p1)
            refn == IF Abs(Dot(pin.n1, d)) < Abs(Dot(pin.n2, d)) THEN pin.n2 ELSE pin.n1
        IN  IF d = <<0, 0, 0>> \/ Cross(d, refn) = <<0, 0, 0>>
                THEN pf = Zero4
                ELSE pf[4] = << Dot(d, d), Dot(d, d) >> /\ Dot(d, d) > 0

C9_Witness ==
    /\ ppc = "bin" /\ pin.p1 # pin.p2 /\ pl.swapped
    /\ Cross(Sub(pin.p2, pin.p1), pin.n2) = <<0, 0, 0>>
    /\ pf = Zero4

\* C10: for non-coincident points the reference normal chosen by
\* ComputePairFeatures deviates from the connecting line no more than the
\* other one; the roles are swapped (reference n2, other n1, connecting
\* vector negated, f3 = -angle2) exactly when acos|angle1| > acos|angle2|,
\* and otherwise n1 stays the reference and f3 = angle1.
C10_Canonicalization ==
    (ppc = "bin" /\ pin.p1 # pin.p2) =>
        LET d == Sub(pin.p2, pin.p1)
            D == Dot(d, d)
        IN  /\ Abs(Dot(pl.ref, d)) >= Abs(Dot(pl.other, d))
            /\ pl.swapped <=> Abs(Dot(pin.n1, d)) < Abs(Dot(pin.n2, d))
            /\ pl.swapped => (pl.ref = pin.n2 /\ pl.other = pin.n1 /\ pl.dvec = Neg(d))
            /\ ~ pl.swapped => (pl.ref = pin.n1 /\ pl.other = pin.n2 /\ pl.dvec = d)
            /\ pf # Zero4 =>
                  pf[3] = IF pl.swapped THEN Surd(-Dot(pin.n2, d), D)
                          ELSE Surd(Dot(pin.n1, d), D)

C10_Witness ==
    /\ ppc = "bin" /\ pl.swapped /\ pf # Zero4
    /\ pl.ref = pin.n2 /\ pin.n2 # pin.n1
    /\ pf[3] # SurdZero

====
